---- MODULE Spec2Model ----
(***************************************************************************)
(* A model of PPO (src/ppo.py) and of its novelty module RND (src/rnd.py): *)
(* the rollout collector, the advantage estimator, the clipped-surrogate   *)
(* update and the learn loop.                                              *)
(*                                                                         *)
(* Numbers.  The program computes in floating point.  The model computes   *)
(* in exact rationals <<n, d>> (d > 0, lowest terms); <<0, 0>> stands for  *)
(* NaN, the result of 0/0.  exp and sqrt, which leave the rationals, are   *)
(* computed to ExpDigits and SqrtDigits decimal places and are exact where *)
(* the result is rational (Exp(0) = 1, the root of a rational's square);   *)
(* the normalized advantages are kept to AdvantageDigits decimal places.   *)
(***************************************************************************)
EXTENDS Integers, Sequences, FiniteSets

VARIABLES
    pc,               \* position of the program
    error,            \* the exception that ended the program ("" while none has)
    \* hyperparameters (PPO._init_hyperparameters)
    timesteps_per_batch,
    max_timesteps_per_episode,
    n_updates_per_iteration,
    gamma,
    lambda_return,
    clip,
    exploration_factor,
    std_set_iteration,
    hyperparameters,  \* the keyword arguments given to PPO(...): here, seed (or none)
    seed,             \* self.seed
    \* the environment: what it is and what it has done
    env,              \* [observation_space, action_space, obs_dim, dones, rewards]: the
                      \* kinds of its spaces, observation size, the answers step() may give
    env_steps,        \* env.step calls since the last env.reset
    env_episodes,     \* the episodes the env ran since rollout was called: [steps, done]
    \* PPO's fields
    theta,            \* the actor's parameters
    phi,              \* the critic's parameters
    logger,           \* self.logger: t_so_far, i_so_far, batch_lens, actor_losses
    rnd,              \* self.rnd: built, optimizer steps on the target and on the
                      \* predictor, scheduler steps, get_reward calls, init_obs
    \* __init__'s and learn's locals
    ex_f,
    total_timesteps,
    t_so_far,
    i_so_far,
    epochs,           \* update epochs finished in this iteration (the for loop's index)
    optim_steps,      \* the optimizer steps of this iteration, in order
    batch_rews,       \* learn / estimate_advantage: per-episode reward sequences
    V,                \* learn: the value vector (V.detach() is estimate_advantage's values)
    advantages,       \* estimate_advantage's result
    deltas,           \* the residuals (delta) estimate_advantage computed, in the order of advantages
    A_k,              \* the normalized advantages
    ratios,
    surr1,
    surr2,
    actor_loss,
    critic_loss,
    \* rollout's locals
    caller,           \* who called rollout: "__init__" or "learn"
    theta_k,          \* the actor's parameters when rollout was called
    t,
    ep_t,
    obs,
    batch_obs,
    batch_acts,
    batch_log_probs,
    batch_intr_rews,
    batch_extr_rews,
    batch_lens,
    ep_intr_rews,
    ep_extr_rews

hyper == <<timesteps_per_batch, max_timesteps_per_episode, n_updates_per_iteration,
           gamma, lambda_return, clip, std_set_iteration, hyperparameters>>

envVars == <<env, env_steps, env_episodes>>

rolloutVars == <<caller, theta_k, t, ep_t, obs, batch_obs, batch_acts, batch_log_probs,
                 batch_intr_rews, batch_extr_rews, batch_lens, ep_intr_rews,
                 ep_extr_rews>>

updateVars == <<ratios, surr1, surr2, actor_loss, critic_loss>>

gaeVars == <<batch_rews, V, advantages, deltas, A_k>>

learnVars == <<total_timesteps, t_so_far, i_so_far, epochs, optim_steps>>

vars == <<pc, error, hyper, exploration_factor, envVars, theta, phi, logger, rnd,
          ex_f, seed, learnVars, gaeVars, updateVars, rolloutVars>>

----------------------------------------------------------------------------
(* Rational arithmetic, as the program's float arithmetic (+, -, *, /).    *)

Abs(x) == IF x < 0 THEN -x ELSE x

RECURSIVE GCD(_, _)
GCD(a, b) == IF b = 0 THEN a ELSE GCD(b, a % b)

NaN == <<0, 0>>

IsNaN(x) == x[2] = 0

\* n/d in lowest terms with a positive denominator; 0/0 is NaN.
Q(n, d) ==
    IF d = 0 THEN NaN
    ELSE LET s == IF d < 0 THEN -1 ELSE 1
             g == GCD(Abs(n), Abs(d))
         IN  <<(s * n) \div g, (s * d) \div g>>

Num(n) == <<n, 1>>

QAdd(x, y) == IF IsNaN(x) \/ IsNaN(y) THEN NaN
              ELSE LET g == GCD(x[2], y[2])
                   IN  Q(x[1] * (y[2] \div g) + y[1] * (x[2] \div g),
                         (x[2] \div g) * y[2])

QNeg(x) == IF IsNaN(x) THEN NaN ELSE <<-x[1], x[2]>>

QSub(x, y) == QAdd(x, QNeg(y))

QMul(x, y) == IF IsNaN(x) \/ IsNaN(y) THEN NaN
              ELSE LET a == Q(x[1], y[2])
                       b == Q(y[1], x[2])
                   IN  Q(a[1] * b[1], a[2] * b[2])

\* x / y; 0/0 is NaN (the only division by zero the program performs).
QDiv(x, y) == IF IsNaN(x) \/ IsNaN(y) THEN NaN
              ELSE IF y[1] = 0 THEN NaN
              ELSE LET a == Q(x[1], y[1])
                       b == Q(y[2], x[2])
                   IN  Q(a[1] * b[1], a[2] * b[2])

\* x < y; every comparison with NaN is false.
QLt(x, y) == /\ ~IsNaN(x) /\ ~IsNaN(y)
             /\ LET g == GCD(x[2], y[2])
                IN  x[1] * (y[2] \div g) < y[1] * (x[2] \div g)

QLe(x, y) == /\ ~IsNaN(x) /\ ~IsNaN(y)
             /\ LET g == GCD(x[2], y[2])
                IN  x[1] * (y[2] \div g) <= y[1] * (x[2] \div g)

RECURSIVE QSum(_)
QSum(s) == IF s = <<>> THEN Num(0) ELSE QAdd(s[1], QSum(Tail(s)))

RECURSIVE Sum(_)
Sum(s) == IF s = <<>> THEN 0 ELSE s[1] + Sum(Tail(s))

Min2(a, b) == IF a < b THEN a ELSE b

\* s[1..n] \o ... : the flattening of a sequence of sequences.
RECURSIVE Flatten(_)
Flatten(ss) == IF ss = <<>> THEN <<>> ELSE ss[1] \o Flatten(Tail(ss))

----------------------------------------------------------------------------
(* PPO.estimate_advantage                                                  *)

\* zip(ep_rews, values, values[1:]) stops at its shortest argument.
ZipLen(ep_rews, values) ==
    Min2(Len(ep_rews), IF Len(values) = 0 THEN 0 ELSE Len(values) - 1)

\* A residual that leaves out the next value (not the code's).
NoBootstrapResidual(rew, v_cur, v_next, g) == QSub(rew, v_cur)
\* delta = rew + v_next * self.gamma - v_cur
TDResidual(rew, v_cur, v_next, g) == QSub(QAdd(rew, QMul(v_next, g)), v_cur)

\* discounted_estimate = delta + discounted_estimate * self.gamma * self.lambda_return
Discount(delta, discounted_estimate, g, l) ==
    QAdd(delta, QMul(QMul(discounted_estimate, g), l))

\* The residual of every triple (rew, v_cur, v_next) of zip(ep_rews, values,
\* values[1:]): triple k pairs ep_rews[k-1] with values[k-1] and values[k],
\* counted from the start of values whichever episode ep_rews is.
EpisodeDeltas(ep_rews, values, g) ==
    [k \in 1..ZipLen(ep_rews, values) |->
        TDResidual(ep_rews[k], values[k], values[k + 1], g)]

\* The inner loop over reversed(list(zip(...))), at zipped triple k with the
\* running discounted_estimate of the triples after k: the estimates of
\* triples 1..k, in time order (advantages.insert(0, ...)).
RECURSIVE EpisodeBackward(_, _, _, _, _, _)
EpisodeBackward(ep_rews, values, g, l, k, discounted_estimate) ==
    IF k = 0 THEN <<>>
    ELSE LET delta == EpisodeDeltas(ep_rews, values, g)[k]
             est   == Discount(delta, discounted_estimate, g, l)
         IN  EpisodeBackward(ep_rews, values, g, l, k - 1, est) \o <<est>>

\* One pass of "for ep_rews in reversed(batch_rews)": discounted_estimate = 0,
\* then the inner loop.  The triples are zipped from values[0] for every episode.
EpisodeAdvantages(ep_rews, values, g, l) ==
    EpisodeBackward(ep_rews, values, g, l, ZipLen(ep_rews, values), Num(0))

RECURSIVE EpisodesReversed(_, _, _, _, _, _)
EpisodesReversed(rews, values, g, l, e, acc) ==
    IF e = 0 THEN acc
    ELSE EpisodesReversed(rews, values, g, l, e - 1,
                          EpisodeAdvantages(rews[e], values, g, l) \o acc)

estimate_advantage(rews, values, g, l) ==
    EpisodesReversed(rews, values, g, l, Len(rews), <<>>)

\* The delta of every advantage estimate_advantage returns, in the same order.
RECURSIVE estimate_deltas(_, _, _)
estimate_deltas(rews, values, g) ==
    IF rews = <<>> THEN <<>>
    ELSE EpisodeDeltas(rews[1], values, g) \o estimate_deltas(Tail(rews), values, g)

----------------------------------------------------------------------------
(* Tensor arithmetic of learn: broadcasting, normalization, the surrogate. *)

\* Two 1-d shapes broadcast when they are equal or one of them is 1.
Broadcastable(m, n) == m = n \/ m = 1 \/ n = 1

BroadcastLen(m, n) == IF m = 1 THEN n ELSE m

\* x * y, elementwise with broadcasting (the caller checks Broadcastable).
ElemMul(x, y) ==
    [i \in 1..BroadcastLen(Len(x), Len(y)) |->
        QMul(x[IF Len(x) = 1 THEN 1 ELSE i], y[IF Len(y) = 1 THEN 1 ELSE i])]

RECURSIVE ISqrtBetween(_, _, _)
ISqrtBetween(n, lo, hi) ==
    IF lo = hi THEN lo
    ELSE LET mid == (lo + hi + 1) \div 2
         IN  IF mid * mid <= n THEN ISqrtBetween(n, mid, hi)
             ELSE ISqrtBetween(n, lo, mid - 1)

ISqrt(n) == ISqrtBetween(n, 0, Min2(n, 46340))

RECURSIVE Pow10(_)
Pow10(k) == IF k = 0 THEN 1 ELSE 10 * Pow10(k - 1)

\* floor((q + r/d) * 10^k), by long division: k more digits of a quotient q
\* with remainder r.
RECURSIVE ScaledQuotient(_, _, _, _)
ScaledQuotient(q, r, d, k) ==
    IF k = 0 THEN q
    ELSE ScaledQuotient(q * 10 + (r * 10) \div d, (r * 10) % d, d, k - 1)

\* The decimal places the model keeps of a square root, of an exponential and
\* of a normalized advantage, where the program keeps a float's 24 bits.
SqrtDigits == 4
ExpDigits == 5
AdvantageDigits == 4

\* The decimal places the series of Exp carries beyond ExpDigits.
ExpGuard == 2

\* x to k decimal places, halves away from zero.
Round(x, k) ==
    IF IsNaN(x) THEN NaN
    ELSE LET a == Abs(x[1])
             v == ScaledQuotient(a \div x[2], a % x[2], x[2], k + 1)
             r == (v + 5) \div 10
         IN  Q(IF x[1] < 0 THEN -r ELSE r, Pow10(k))

\* The square root by hand, two digits of the argument at a time: p is the
\* root so far and r what is left of the argument under it, rem / d the part
\* of the argument not yet brought down; n more digits of the root.
RECURSIVE SqrtLong(_, _, _, _, _)
SqrtLong(p, r, rem, d, n) ==
    IF n = 0 THEN p
    ELSE LET d1 == (rem * 10) \div d
             m1 == (rem * 10) % d
             d2 == (m1 * 10) \div d
             m2 == (m1 * 10) % d
             r2 == r * 100 + 10 * d1 + d2
             b  == CHOOSE c \in 0..9 :
                       /\ (20 * p + c) * c <= r2
                       /\ c = 9 \/ (20 * p + c + 1) * (c + 1) > r2
         IN  SqrtLong(10 * p + b, r2 - (20 * p + b) * b, m2, d, n - 1)

\* sqrt: NaN below 0, exact for the square of a rational, else rounded to the
\* nearest of SqrtDigits decimal places (one place fewer from 10^4 on, two
\* from 10^6 on, three from 10^8 on).
Sqrt(x) ==
    IF IsNaN(x) \/ x[1] < 0 THEN NaN
    ELSE LET rn == ISqrt(x[1])
             rd == ISqrt(x[2])
             whole == x[1] \div x[2]
             k  == IF whole < Pow10(4) THEN SqrtDigits
                   ELSE IF whole < Pow10(6) THEN SqrtDigits - 1
                   ELSE IF whole < Pow10(8) THEN SqrtDigits - 2
                   ELSE SqrtDigits - 3
             p0 == ISqrt(whole)
             v  == SqrtLong(p0, whole - p0 * p0, x[1] % x[2], x[2], k + 1)
         IN  IF rn * rn = x[1] /\ rd * rd = x[2] THEN Q(rn, rd)
             ELSE Q((v + 5) \div 10, Pow10(k))

\* tensor.mean(): 0/0 = NaN for an empty tensor.
Mean(x) == QDiv(QSum(x), Num(Len(x)))

\* The square of tensor.std(): the unbiased estimate of the variance, NaN
\* (0/0) for a single element.
Var(x) ==
    LET m == Mean(x)
        sq == [i \in 1..Len(x) |-> QMul(QSub(x[i], m), QSub(x[i], m))]
    IN  QDiv(QSum(sq), Num(Len(x) - 1))

\* a / sqrt(v) for v > 0, as the root of a^2 / v with the sign of a: the one
\* rounding is that of the quotient, as in the program, where the divisor
\* carries a float's 24 bits.
DivideBySqrt(a, v) ==
    IF IsNaN(a) \/ IsNaN(v) THEN NaN
    ELSE LET r == Sqrt(QDiv(QMul(a, a), v))
         IN  IF a[1] < 0 THEN QNeg(r) ELSE r

\* A_k = (A_k - A_k.mean()) / (A_k.std() + 1e-10).  1e-10 is below the model's
\* precision: it decides only the case std = 0, where every A_k - mean is 0
\* and the quotient is 0 / 1e-10 = 0.  The elements of the new tensor are kept
\* to AdvantageDigits decimal places.
Normalize(x) ==
    LET m == Mean(x)
        var == Var(x)
    IN  [i \in 1..Len(x) |->
            IF var = Num(0) THEN Num(0)
            ELSE Round(DivideBySqrt(QSub(x[i], m), var), AdvantageDigits)]

\* term * a / m to the nearest integer, without forming term * a.
MulDivRound(term, a, m) ==
    (term \div m) * a + ((term % m) * a + m \div 2) \div m

\* The series 1 + x + x^2/2! + ... for x = n/d >= 0, in units of
\* 10^-(ExpDigits + ExpGuard), summed until its terms vanish.
RECURSIVE ExpSeries(_, _, _, _, _)
ExpSeries(n, d, k, term, acc) ==
    IF term = 0 THEN acc
    ELSE ExpSeries(n, d, k + 1, MulDivRound(term, n, d * k), acc + term)

\* torch.exp: 1 at 0, else the series rounded to ExpDigits decimal places,
\* and for x < 0 the reciprocal of the series at -x, rounded likewise.
Exp(x) ==
    IF IsNaN(x) THEN NaN
    ELSE IF x[1] = 0 THEN Num(1)
    ELSE LET digits == ExpDigits + ExpGuard
             one == Pow10(digits)
             e   == ExpSeries(Abs(x[1]), x[2], 1, one, 0)
             e10 == (e + 5) \div 10
             v   == IF x[1] > 0 THEN e
                    ELSE IF e < 2 * Pow10(digits + 1)
                    THEN ScaledQuotient(one \div e, one % e, e, digits)
                    ELSE ScaledQuotient(one \div e10, one % e10, e10, digits - 1)
             h   == Pow10(ExpGuard)
         IN  Q((v + h \div 2) \div h, Pow10(ExpDigits))

\* torch.clamp(x, lo, hi) and torch.min(x, y); both keep a NaN.
Clamp(x, lo, hi) ==
    IF IsNaN(x) THEN NaN ELSE IF QLt(x, lo) THEN lo ELSE IF QLt(hi, x) THEN hi ELSE x

QMax(x, y) == IF IsNaN(x) \/ IsNaN(y) THEN NaN ELSE IF QLt(x, y) THEN y ELSE x
QMin(x, y) == IF IsNaN(x) \/ IsNaN(y) THEN NaN ELSE IF QLt(y, x) THEN y ELSE x

\* Ratios that leave out the log-probabilities of the rollout (not the code's).
RatiosOfCurrent(curr_log_probs, stale_log_probs) ==
    [i \in 1..Len(curr_log_probs) |-> Exp(curr_log_probs[i])]
\* ratios = torch.exp(curr_log_probs - batch_log_probs)
Ratios(curr_log_probs, stale_log_probs) ==
    [i \in 1..Len(curr_log_probs) |-> Exp(QSub(curr_log_probs[i], stale_log_probs[i]))]

\* surr1 = ratios * A_k
Surr1(rs, A) == ElemMul(rs, A)

\* surr2 = torch.clamp(ratios, 1 - self.clip, 1 + self.clip) * A_k
Surr2(rs, A, c) ==
    ElemMul([i \in 1..Len(rs) |-> Clamp(rs[i], QSub(Num(1), c), QAdd(Num(1), c))], A)

\* The larger of the two surrogates (not the code's).
SurrogateMax(s1, s2) == [i \in 1..Len(s1) |-> QMax(s1[i], s2[i])]
\* torch.min(surr1, surr2), elementwise
Surrogate(s1, s2) == [i \in 1..Len(s1) |-> QMin(s1[i], s2[i])]

\* actor_loss = (-torch.min(surr1, surr2)).mean()
ActorLoss(s1, s2) ==
    Mean([i \in 1..Len(s1) |-> QNeg(Surrogate(s1, s2)[i])])

\* x + y, elementwise with broadcasting.
ElemAdd(x, y) ==
    [i \in 1..BroadcastLen(Len(x), Len(y)) |->
        QAdd(x[IF Len(x) = 1 THEN 1 ELSE i], y[IF Len(y) = 1 THEN 1 ELSE i])]

\* A regression target that leaves out the current value (not the code's).
CriticTargetAdvantage(A, v) == A
\* A_k + V
CriticTarget(A, v) == ElemAdd(A, v)

\* nn.MSELoss()(input, target): the mean of the squared differences.
MSELoss(input, target) ==
    Mean([i \in 1..BroadcastLen(Len(input), Len(target)) |->
            LET d == QSub(input[IF Len(input) = 1 THEN 1 ELSE i],
                          target[IF Len(target) = 1 THEN 1 ELSE i])
            IN  QMul(d, d)])

\* critic_loss = nn.MSELoss()(V, A_k + V)
CriticLoss(v, A) == MSELoss(v, CriticTarget(A, v))

----------------------------------------------------------------------------
(* The networks and the action distribution (continuous actions).          *)

\* self.actor(obs): the mean action.  self.critic(obs): the value.  NaN
\* parameters give a NaN output for every observation.
Actor(th, o) == QMul(th, Num(o))
Critic(ph, o) == QMul(ph, Num(o))

\* MultivariateNormal(out, self.cov_mat) validates its arguments (the default
\* of torch.distributions): a NaN mean is a ValueError.
InvalidLoc(out) == IsNaN(out)

\* dist.log_prob(action) of MultivariateNormal(out, cov_mat) with cov_var = 0.5
\* and one action dimension: -(a - out)^2 - ln(pi)/2, ln(pi)/2 taken as 143/250.
LogProb(out, a) ==
    LET d == QSub(Num(a), out)
    IN  QSub(QNeg(QMul(d, d)), Q(143, 250))

\* get_action(obs), for the action dist.sample() returned: the actor on the
\* one observation, the distribution around its output, log_prob.detach().
GetActionLogProb(th, o, action) ==
    LET out == Actor(th, o)
    IN  LogProb(out, action)

\* evaluate(batch_obs, batch_acts): V and log_probs
EvaluateV(ph, b_obs) == [i \in 1..Len(b_obs) |-> Critic(ph, b_obs[i])]

\* The actor on the whole batch, one distribution around its outputs, the
\* log-probabilities of batch_acts.
EvaluateOut(th, b_obs) == [i \in 1..Len(b_obs) |-> Actor(th, b_obs[i])]

EvaluateLogProbs(th, b_obs, b_acts) ==
    LET out == EvaluateOut(th, b_obs)
    IN  [i \in 1..Len(b_acts) |-> LogProb(out[i], b_acts[i])]

\* evaluate raises when the distribution rejects the actor's output.
EvaluateRaises(th, b_obs) ==
    \E i \in 1..Len(b_obs) : InvalidLoc(EvaluateOut(th, b_obs)[i])

----------------------------------------------------------------------------
(* The program: PPO.__init__, PPO.rollout, PPO.learn.                      *)

MaxBatch   == 3        \* largest timesteps_per_batch
MaxEpLen   == 3        \* largest max_timesteps_per_episode
MaxUpdates == 2        \* largest n_updates_per_iteration
MaxTotal   == 3        \* largest total_timesteps given to learn

Thetas == {Num(0), Num(1), NaN}    \* actor parameters
Phis == {Num(0), Num(1), NaN}      \* critic parameters

\* loss.backward() and optim.step(): the gradient of a NaN loss is NaN and
\* Adam writes it into every parameter; after a step on a loss that is a
\* number the parameters are numbers.
OptimStep(params, loss) == {p \in params : IsNaN(p) <=> IsNaN(loss)}
SampledActions == {1}          \* what dist.sample() may return
IntrinsicRewards == {Num(1)}   \* what rnd.get_reward may return

\* The methods class RND defines.
RNDMethods == {"__init__", "get_reward", "anneal_lr"}

\* The observation the env returns after its k-th step since reset (0: reset's).
EnvObs(k) == k % 2

\* Python values, as far as the seed needs them: the type and what str() gives.
None == [type |-> "NoneType", text |-> "None"]
Absent == [type |-> "absent", text |-> ""]     \* the keyword was not given

\* No seed keyword.
NoSeed == [seed |-> Absent]

\* The seeds a caller may give: 7, 1.5, "7", "abc", True, None, or none.
SeedInputs ==
    {[type |-> "int", text |-> "7"], [type |-> "float", text |-> "1.5"],
     [type |-> "str", text |-> "7"], [type |-> "str", text |-> "abc"],
     [type |-> "bool", text |-> "True"], None, Absent}

\* The kinds of gym space an env may have.
ObservationSpaces == {"Box", "Discrete", "Dict"}
ActionSpaces == {"Box", "Discrete", "MultiBinary"}

\* str(val)
PyStr(val) == val.text

\* What Python makes of a source text as an expression.
IntLiterals == {"7"}
FloatLiterals == {"1.5"}
PyEvalRaises(text) == text \notin IntLiterals \cup FloatLiterals \cup {"True", "None"}
PyEval(text) ==
    IF text \in IntLiterals THEN [type |-> "int", text |-> text]
    ELSE IF text \in FloatLiterals THEN [type |-> "float", text |-> text]
    ELSE IF text = "True" THEN [type |-> "bool", text |-> text]
    ELSE None

NoLogger == [t_so_far |-> 0, i_so_far |-> 0, batch_lens |-> <<>>, actor_losses |-> <<>>]

NoRnd == [built |-> FALSE, target_steps |-> 0, predictor_steps |-> 0, lr_steps |-> 0,
          get_reward_calls |-> 0, init_obs |-> <<>>]

\* No call has been made: no locals, nothing collected, no RND.
NoCall ==
    /\ error = ""
    /\ env_steps = 0 /\ env_episodes = <<>>
    /\ logger = NoLogger /\ rnd = NoRnd
    /\ ex_f = 0 /\ seed = None /\ total_timesteps = 0 /\ t_so_far = 0 /\ i_so_far = 0
    /\ epochs = 0 /\ optim_steps = <<>>
    /\ caller = "" /\ theta_k = Num(0) /\ t = 0 /\ ep_t = 0 /\ obs = 0
    /\ batch_obs = <<>> /\ batch_acts = <<>> /\ batch_log_probs = <<>>
    /\ batch_intr_rews = <<>> /\ batch_extr_rews = <<>> /\ batch_lens = <<>>
    /\ ep_intr_rews = <<>> /\ ep_extr_rews = <<>>

\* learn has computed nothing yet.
NoUpdate ==
    /\ batch_rews = <<>> /\ V = <<>> /\ advantages = <<>> /\ deltas = <<>> /\ A_k = <<>>
    /\ ratios = <<>> /\ surr1 = <<>> /\ surr2 = <<>> /\ actor_loss = Num(0)
    /\ critic_loss = Num(0)

\* The arguments of PPO(actor, critic, env, **hyperparameters).
Init ==
    /\ pc = "new"
    /\ timesteps_per_batch \in 1..MaxBatch
    /\ max_timesteps_per_episode \in 1..MaxEpLen
    /\ n_updates_per_iteration \in 1..MaxUpdates
    /\ gamma = Q(1, 2)
    /\ lambda_return = Q(1, 2)
    /\ clip = Q(1, 5)
    /\ exploration_factor \in {0, 1}
    /\ std_set_iteration \in IF exploration_factor = 0 THEN {3} ELSE {0, 3}
    /\ hyperparameters = NoSeed
    /\ env \in [observation_space : {"Box"}, action_space : {"Box"}, obs_dim : {1, 2},
                dones : {BOOLEAN}, rewards : {{Num(1)}}]
    /\ theta = Num(1)
    /\ phi = Num(1)
    /\ NoCall
    /\ NoUpdate

\* The end-to-end scenario: an env with one observation dimension, reward 1.0
\* per step, that never says done; episodes capped at 5 steps, 10 timesteps
\* per batch, no exploration.
InitE2E ==
    /\ pc = "new"
    /\ timesteps_per_batch = 10
    /\ max_timesteps_per_episode = 5
    /\ n_updates_per_iteration \in 1..MaxUpdates
    /\ gamma = Q(1, 2)
    /\ lambda_return = Q(1, 2)
    /\ clip = Q(1, 5)
    /\ exploration_factor = 0
    /\ std_set_iteration = 3
    /\ hyperparameters = NoSeed
    /\ env = [observation_space |-> "Box", action_space |-> "Box", obs_dim |-> 1,
              dones |-> {FALSE}, rewards |-> {Num(1)}]
    /\ theta \in OptimStep(Thetas, Num(0))
    /\ phi \in OptimStep(Phis, Num(0))
    /\ NoCall
    /\ NoUpdate

\* rollout's first lines: empty batch, t = 0.
RolloutLocals(who) ==
    /\ caller' = who
    /\ theta_k' = theta
    /\ t' = 0 /\ ep_t' = 0 /\ obs' = 0
    /\ batch_obs' = <<>> /\ batch_acts' = <<>> /\ batch_log_probs' = <<>>
    /\ batch_intr_rews' = <<>> /\ batch_extr_rews' = <<>> /\ batch_lens' = <<>>
    /\ ep_intr_rews' = <<>> /\ ep_extr_rews' = <<>>
    /\ env_episodes' = <<>>

\* _init_hyperparameters: exec('self.seed = ' + str(val)) for a seed keyword.
\* self.seed after it (None by default, and when the exec raises).
SeedAfterExec ==
    IF hyperparameters.seed = Absent \/ PyEvalRaises(PyStr(hyperparameters.seed))
    THEN None
    ELSE PyEval(PyStr(hyperparameters.seed))

\* What __init__ raises before it calls rollout: the exec of the seed, the
\* seed's assert, the observation space's assert, and the read of
\* self.act_type, which only a Box or Discrete action space sets.
ConstructError ==
    IF hyperparameters.seed # Absent /\ PyEvalRaises(PyStr(hyperparameters.seed))
    THEN "NameError: name is not defined"
    ELSE IF SeedAfterExec # None /\ SeedAfterExec.type # "int"
    THEN "AssertionError: type(self.seed) == int"
    ELSE IF env.observation_space # "Box"
    THEN "AssertionError: type(env.observation_space) == gym.spaces.Box"
    ELSE IF env.action_space \notin {"Box", "Discrete"}
    THEN "AttributeError: 'PPO' object has no attribute 'act_type'"
    ELSE ""

\* __init__ up to its call of rollout: the hyperparameters, the checks of the
\* env, the logger, exploration switched off.
Construct ==
    /\ pc = "new"
    /\ seed' = SeedAfterExec
    /\ IF ConstructError # ""
       THEN /\ pc' = "raised"
            /\ error' = ConstructError
            /\ UNCHANGED <<logger, ex_f, exploration_factor, env_episodes, rolloutVars>>
       ELSE /\ logger' = NoLogger
            /\ ex_f' = exploration_factor
            /\ exploration_factor' = 0
            /\ RolloutLocals("__init__")
            /\ pc' = "rollout"
            /\ UNCHANGED error
    /\ UNCHANGED <<hyper, env, env_steps, theta, phi, rnd, learnVars, gaeVars,
                   updateVars>>

\* while t < self.timesteps_per_batch
RolloutContinues == t < timesteps_per_batch

\* A new episode: env.reset().
RolloutEpisode ==
    /\ pc = "rollout"
    /\ RolloutContinues
    /\ ep_intr_rews' = <<>>
    /\ ep_extr_rews' = <<>>
    /\ obs' = EnvObs(0)
    /\ env_steps' = 0
    /\ ep_t' = 0
    /\ pc' = "episode"
    /\ UNCHANGED <<error, hyper, exploration_factor, env, env_episodes, theta, phi,
                   logger, rnd, ex_f, seed, learnVars, gaeVars, updateVars, caller, theta_k,
                   t, batch_obs, batch_acts, batch_log_probs, batch_intr_rews,
                   batch_extr_rews, batch_lens>>

\* An episode length that forgets that ep_t counts from 0 (not the code's).
EpisodeLengthOffByOne(last_ep_t) == last_ep_t
\* batch_lens.append(ep_t + 1)
EpisodeLength(last_ep_t) == last_ep_t + 1

\* The for loop ends after this pass: the env said done, or ep_t was the last of
\* range(self.max_timesteps_per_episode).
EpisodeEnds(done, cur_ep_t) == done \/ cur_ep_t + 1 >= max_timesteps_per_episode

\* What the lines after the for loop raise when exploration is on: they call
\* self.rnd.reset_rew_std and self.rnd.get_rew_std.
EpisodeEndError ==
    IF exploration_factor = 0 THEN ""
    ELSE IF logger.i_so_far < std_set_iteration /\ "reset_rew_std" \notin RNDMethods
         THEN "AttributeError: 'RND' object has no attribute 'reset_rew_std'"
    ELSE IF "get_rew_std" \notin RNDMethods
         THEN "AttributeError: 'RND' object has no attribute 'get_rew_std'"
    ELSE ""

\* A get_reward whose optimizer also holds the target's parameters (not the code's).
GetRewardTrainsTarget(r) ==
    [r EXCEPT !.get_reward_calls = @ + 1, !.predictor_steps = @ + 1,
              !.target_steps = @ + 1]
\* RND.get_reward: one optimizer step, on the predictor.
GetReward(r) == [r EXCEPT !.get_reward_calls = @ + 1, !.predictor_steps = @ + 1]

\* RND.anneal_lr: one step of the scheduler.
AnnealLr(r) == [r EXCEPT !.lr_steps = @ + 1]

\* One pass of the for loop, and the lines after the loop when it was the last.
\* get_action raises after t += 1 and batch_obs.append(obs) when the
\* distribution rejects the actor's output.
RolloutStep ==
    /\ pc = "episode"
    /\ IF InvalidLoc(Actor(theta, obs))
       THEN
        /\ t' = t + 1
        /\ batch_obs' = Append(batch_obs, obs)
        /\ pc' = "raised"
        /\ error' = "ValueError: Expected parameter loc to satisfy the constraint"
        /\ UNCHANGED <<batch_acts, batch_log_probs, env_steps, obs, ep_extr_rews,
                       ep_intr_rews, rnd, env_episodes, ep_t, batch_lens,
                       batch_intr_rews, batch_extr_rews>>
       ELSE
       \E action \in SampledActions, done \in env.dones, rew \in env.rewards,
          in_rew \in IntrinsicRewards :
        LET ends == EpisodeEnds(done, ep_t)
            err  == IF ends THEN EpisodeEndError ELSE ""
            extr == Append(ep_extr_rews, rew)
            intr == IF exploration_factor # 0 THEN Append(ep_intr_rews, in_rew)
                    ELSE ep_intr_rews
        IN
        /\ t' = t + 1
        /\ batch_obs' = Append(batch_obs, obs)
        /\ batch_acts' = Append(batch_acts, action)
        /\ batch_log_probs' = Append(batch_log_probs, GetActionLogProb(theta, obs, action))
        /\ env_steps' = env_steps + 1
        /\ obs' = EnvObs(env_steps + 1)
        /\ ep_extr_rews' = extr
        /\ ep_intr_rews' = intr
        /\ rnd' = IF exploration_factor # 0 THEN GetReward(rnd) ELSE rnd
        /\ env_episodes' = IF ends
                           THEN Append(env_episodes, [steps |-> env_steps + 1, done |-> done])
                           ELSE env_episodes
        /\ IF ~ends
           THEN /\ ep_t' = ep_t + 1
                /\ UNCHANGED <<pc, error, batch_lens, batch_intr_rews, batch_extr_rews>>
           ELSE IF err # ""
           THEN /\ pc' = "raised"
                /\ error' = err
                /\ UNCHANGED <<ep_t, batch_lens, batch_intr_rews, batch_extr_rews>>
           ELSE /\ batch_lens' = Append(batch_lens, EpisodeLength(ep_t))
                /\ batch_intr_rews' = Append(batch_intr_rews, intr)
                /\ batch_extr_rews' = Append(batch_extr_rews, extr)
                /\ pc' = "rollout"
                /\ UNCHANGED <<ep_t, error>>
    /\ UNCHANGED <<hyper, exploration_factor, env, theta, phi, logger, ex_f, seed, learnVars,
                   gaeVars, updateVars, caller, theta_k>>

\* np.array(rows) of rows of different lengths: an error with numpy >= 1.24,
\* before that an array of lists.
Ragged(rows) == \E i, j \in 1..Len(rows) : Len(rows[i]) # Len(rows[j])

\* np.zeros_like(batch_extr_rews): a zero per timestep, and for an array of
\* lists a single 0 per list.
ZerosLike(rows) ==
    IF Ragged(rows) THEN [e \in 1..Len(rows) |-> Num(0)]
    ELSE [e \in 1..Len(rows) |-> [k \in 1..Len(rows[e]) |-> Num(0)]]

\* An element of a batch that is a number, not a row of numbers.
IsScalar(x) == x[1] \in Int

\* RND(self.obs_shape, batch_obs.numpy())
NewRnd(init_obs) == [NoRnd EXCEPT !.built = TRUE, !.init_obs = init_obs]

\* The loop is over: the batch is made tensors and arrays, logged and returned.
\* To __init__, which builds the RND and restores exploration_factor; to learn.
RolloutReturn ==
    /\ pc = "rollout"
    /\ ~RolloutContinues
    /\ \E numpy_raises \in IF Ragged(batch_extr_rews) THEN BOOLEAN ELSE {FALSE} :
        IF numpy_raises
        THEN /\ pc' = "raised"
             /\ error' = "ValueError: inhomogeneous shape"
             /\ UNCHANGED <<batch_intr_rews, logger, rnd, exploration_factor>>
        ELSE /\ batch_intr_rews' =
                    IF exploration_factor = 0 THEN ZerosLike(batch_extr_rews)
                    ELSE batch_intr_rews
             /\ logger' = [logger EXCEPT !.batch_lens = batch_lens]
             /\ IF caller = "__init__"
                THEN /\ rnd' = NewRnd(batch_obs)
                     /\ exploration_factor' = ex_f
                     /\ pc' = "constructed"
                ELSE /\ pc' = "advantage"
                     /\ UNCHANGED <<rnd, exploration_factor>>
             /\ UNCHANGED error
    /\ UNCHANGED <<hyper, envVars, theta, phi, ex_f, seed, learnVars, gaeVars, updateVars,
                   caller, theta_k, t, ep_t, obs, batch_obs, batch_acts,
                   batch_log_probs, batch_extr_rews, batch_lens, ep_intr_rews,
                   ep_extr_rews>>

\* learn(total_timesteps), up to the while.
LearnCall ==
    /\ pc = "constructed"
    /\ \E total \in 0..MaxTotal : total_timesteps' = total
    /\ t_so_far' = 0
    /\ i_so_far' = 0
    /\ pc' = "learn"
    /\ UNCHANGED <<error, hyper, exploration_factor, envVars, theta, phi, logger, rnd,
                   ex_f, seed, epochs, optim_steps, gaeVars, updateVars, rolloutVars>>

\* A loop that still runs at t_so_far = total_timesteps (not the code's).
LearnContinuesInclusive == t_so_far <= total_timesteps
\* while t_so_far < total_timesteps
LearnContinues == t_so_far < total_timesteps

\* The iteration starts with rollout().
LearnIterate ==
    /\ pc = "learn"
    /\ LearnContinues
    /\ RolloutLocals("learn")
    /\ epochs' = 0
    /\ optim_steps' = <<>>
    /\ pc' = "rollout"
    /\ UNCHANGED <<error, hyper, exploration_factor, env, env_steps, theta, phi, logger,
                   rnd, ex_f, seed, total_timesteps, t_so_far, i_so_far, gaeVars, updateVars>>

\* The while's condition is false: learn returns.
LearnTerminate ==
    /\ pc = "learn"
    /\ ~LearnContinues
    /\ pc' = "Terminated"
    /\ UNCHANGED <<error, hyper, exploration_factor, envVars, theta, phi, logger, rnd,
                   ex_f, seed, learnVars, gaeVars, updateVars, rolloutVars>>

\* batch_rews = batch_extr_rews + self.exploration_factor * batch_intr_rews
BatchRews(extr, intr, ef) ==
    [e \in 1..Len(extr) |->
        [k \in 1..Len(extr[e]) |-> QAdd(extr[e][k], QMul(Num(ef), intr[e][k]))]]

\* t_so_far += np.sum(batch_lens)
CountTimesteps(so_far, lens) == so_far + Sum(lens)

\* batch_extr_rews is an array of lists and the element of
\* self.exploration_factor * batch_intr_rews to add to a list is a number.
ListPlusNumber(extr, intr) ==
    Ragged(extr) /\ \E e \in 1..Len(intr) : IsScalar(intr[e])

\* After rollout: the counters, V, batch_rews, A_k and its normalization.
\* evaluate raises when the actor's output is NaN; a list and a number cannot
\* be added; a batch of one timestep has a 0-dimensional V.squeeze(), which
\* values[1:] rejects.
LearnAdvantage ==
    /\ pc = "advantage"
    /\ t_so_far' = CountTimesteps(t_so_far, batch_lens)
    /\ i_so_far' = i_so_far + 1
    /\ logger' = [logger EXCEPT !.t_so_far = t_so_far', !.i_so_far = i_so_far']
    /\ V' = IF EvaluateRaises(theta, batch_obs) THEN V ELSE EvaluateV(phi, batch_obs)
    /\ IF EvaluateRaises(theta, batch_obs)
       THEN /\ pc' = "raised"
            /\ error' = "ValueError: Expected parameter loc to satisfy the constraint"
            /\ UNCHANGED <<batch_rews, advantages, deltas, A_k>>
       ELSE IF ListPlusNumber(batch_extr_rews, batch_intr_rews)
       THEN /\ pc' = "raised"
            /\ error' = "TypeError: can only concatenate list"
            /\ UNCHANGED <<batch_rews, advantages, deltas, A_k>>
       ELSE IF Len(batch_obs) = 1
       THEN /\ pc' = "raised"
            /\ error' = "IndexError: slice() cannot be applied to a 0-dim tensor"
            /\ batch_rews' = BatchRews(batch_extr_rews, batch_intr_rews, exploration_factor)
            /\ UNCHANGED <<advantages, deltas, A_k>>
       ELSE /\ batch_rews' = BatchRews(batch_extr_rews, batch_intr_rews, exploration_factor)
            /\ advantages' = estimate_advantage(batch_rews', V', gamma, lambda_return)
            /\ deltas' = estimate_deltas(batch_rews', V', gamma)
            /\ A_k' = Normalize(advantages')
            /\ pc' = "update"
            /\ UNCHANGED error
    /\ UNCHANGED <<hyper, exploration_factor, envVars, theta, phi, rnd, ex_f, seed,
                   total_timesteps, epochs, optim_steps, updateVars, rolloutVars>>

\* for _ in range(self.n_updates_per_iteration)
EpochsLeft(done_epochs) == done_epochs < n_updates_per_iteration

\* The optimizer steps of one epoch, in order.
EpochSteps == <<"actor", "critic">>

\* One epoch: evaluate (an error when the actor's output is NaN), the ratios,
\* the surrogates (an error when A_k does not broadcast against the ratios),
\* the losses, one step of each optimizer, the log.
UpdateEpoch ==
    /\ pc = "update"
    /\ EpochsLeft(epochs)
    /\ IF EvaluateRaises(theta, batch_obs)
       THEN /\ pc' = "raised"
            /\ error' = "ValueError: Expected parameter loc to satisfy the constraint"
            /\ UNCHANGED <<V, ratios, surr1, surr2, actor_loss, critic_loss, theta, phi,
                           optim_steps, logger, epochs>>
       ELSE /\ V' = EvaluateV(phi, batch_obs)
            /\ ratios' = Ratios(EvaluateLogProbs(theta, batch_obs, batch_acts), batch_log_probs)
            /\ IF ~Broadcastable(Len(ratios'), Len(A_k))
               THEN /\ pc' = "raised"
                    /\ error' = "RuntimeError: the size of tensor a must match the size of tensor b"
                    /\ UNCHANGED <<surr1, surr2, actor_loss, critic_loss, theta, phi, optim_steps,
                                   logger, epochs>>
               ELSE /\ surr1' = Surr1(ratios', A_k)
                    /\ surr2' = Surr2(ratios', A_k, clip)
                    /\ actor_loss' = ActorLoss(surr1', surr2')
                    /\ critic_loss' = CriticLoss(V', A_k)
                    /\ theta' \in OptimStep(Thetas, actor_loss')
                    /\ phi' \in OptimStep(Phis, critic_loss')
                    /\ optim_steps' = optim_steps \o EpochSteps
                    /\ logger' = [logger EXCEPT !.actor_losses = Append(@, actor_loss')]
                    /\ epochs' = epochs + 1
                    /\ UNCHANGED <<pc, error>>
    /\ UNCHANGED <<hyper, exploration_factor, envVars, rnd, ex_f, seed, total_timesteps,
                   t_so_far, i_so_far, batch_rews, advantages, deltas, A_k, rolloutVars>>

\* After the epochs: the schedulers, rnd.anneal_lr(), _log_summary() (which
\* empties the logger's batch entries), and the scatter plot of the first two
\* observation dimensions, an IndexError when there is only one.
LearnFinishIteration ==
    /\ pc = "update"
    /\ ~EpochsLeft(epochs)
    /\ rnd' = AnnealLr(rnd)
    /\ logger' = [logger EXCEPT !.batch_lens = <<>>, !.actor_losses = <<>>]
    /\ IF env.obs_dim < 2
       THEN /\ pc' = "raised"
            /\ error' = "IndexError: index 1 is out of bounds for dimension 0 with size 1"
       ELSE /\ pc' = "learn"
            /\ UNCHANGED error
    /\ UNCHANGED <<hyper, exploration_factor, envVars, theta, phi, ex_f, seed, learnVars,
                   gaeVars, updateVars, rolloutVars>>

Next ==
    \/ Construct
    \/ RolloutEpisode
    \/ RolloutStep
    \/ RolloutReturn
    \/ LearnCall
    \/ LearnIterate
    \/ LearnTerminate
    \/ LearnAdvantage
    \/ UpdateEpoch
    \/ LearnFinishIteration

Spec == Init /\ [][Next]_vars

\* The program has ended: learn returned, or an exception left it.
Halted == pc \in {"Terminated", "raised"}

\* Every call returns: a program that has not ended takes its next step.
\* Next is enabled exactly in the states that are not Halted, so the condition
\* is weak fairness of Next, written without ENABLED.
FairSpec == Spec /\ ([]<><<TRUE>>_vars \/ []<>Halted)

SpecE2E == InitE2E /\ [][Next]_vars

----------------------------------------------------------------------------
(* Construction alone: SpecNew draws the env's spaces and the seed keyword *)
(* and runs __init__ up to its call of rollout.                            *)

InitNew ==
    /\ pc = "new"
    /\ timesteps_per_batch \in 1..MaxBatch
    /\ max_timesteps_per_episode = 1
    /\ n_updates_per_iteration = 1
    /\ gamma = Q(1, 2)
    /\ lambda_return = Q(1, 2)
    /\ clip = Q(1, 5)
    /\ exploration_factor \in {0, 1}
    /\ std_set_iteration = 3
    /\ hyperparameters \in [seed : SeedInputs]
    /\ env \in [observation_space : ObservationSpaces, action_space : ActionSpaces,
                obs_dim : {1}, dones : {BOOLEAN}, rewards : {{Num(1)}}]
    /\ theta = Num(1)
    /\ phi = Num(1)
    /\ NoCall
    /\ NoUpdate

SpecNew == InitNew /\ [][Construct]_vars

----------------------------------------------------------------------------
(* estimate_advantage as a function of its arguments: SpecGAE draws a      *)
(* batch of reward sequences, a value vector, gamma and lambda, and calls  *)
(* it once.                                                                *)

MaxSteps == 3          \* timesteps in a batch given to estimate_advantage

RewardInputs == {Num(0), Num(1)}
ValueInputs  == {Num(0), Num(1)}
GammaInputs  == {Q(1, 2), Num(1)}
LambdaInputs == {Num(0), Q(1, 2), Num(1)}

\* Episode lengths of a batch: at least one episode, every episode at least one step.
LensInputs ==
    {l \in UNION {[1..e -> 1..MaxSteps] : e \in 1..MaxSteps} : Sum(l) <= MaxSteps}

\* flat cut into episodes of lengths lens.
RECURSIVE Split(_, _)
Split(flat, lens) ==
    IF lens = <<>> THEN <<>>
    ELSE <<SubSeq(flat, 1, lens[1])>>
         \o Split(SubSeq(flat, lens[1] + 1, Len(flat)), Tail(lens))

\* offset(e): the flat index before episode e's first timestep.
Offset(rews, e) == Len(Flatten(SubSeq(rews, 1, e - 1)))

\* No PPO object takes part: its other hyperparameters and its networks are unused.
NoHyper ==
    /\ timesteps_per_batch = 1 /\ max_timesteps_per_episode = 1
    /\ n_updates_per_iteration = 1 /\ exploration_factor = 0 /\ std_set_iteration = 3
    /\ hyperparameters = NoSeed
    /\ env = [observation_space |-> "Box", action_space |-> "Box", obs_dim |-> 1,
              dones |-> {}, rewards |-> {}]
    /\ theta = Num(0) /\ phi = Num(0)

InitGAE ==
    /\ pc = "estimate_advantage"
    /\ \E lens \in LensInputs :
         /\ \E flat \in [1..Sum(lens) -> RewardInputs] : batch_rews = Split(flat, lens)
         \* one value per timestep (learn's V), or one more (a value after the last step)
         /\ \E n \in {Sum(lens), Sum(lens) + 1} : V \in [1..n -> ValueInputs]
    /\ gamma \in GammaInputs
    /\ lambda_return \in LambdaInputs
    /\ clip = Q(1, 5)
    /\ NoHyper
    /\ NoCall
    /\ advantages = <<>> /\ deltas = <<>> /\ A_k = <<>>
    /\ ratios = <<>> /\ surr1 = <<>> /\ surr2 = <<>> /\ actor_loss = Num(0)
    /\ critic_loss = Num(0)

EstimateAdvantage ==
    /\ pc = "estimate_advantage"
    /\ advantages' = estimate_advantage(batch_rews, V, gamma, lambda_return)
    /\ deltas' = estimate_deltas(batch_rews, V, gamma)
    /\ pc' = "estimated"
    /\ UNCHANGED <<error, hyper, exploration_factor, envVars, theta, phi, logger, rnd,
                   ex_f, seed, learnVars, batch_rews, V, A_k, updateVars, rolloutVars>>

SpecGAE == InitGAE /\ [][EstimateAdvantage]_vars

----------------------------------------------------------------------------
(* The clipped surrogate as a function of one timestep's ratio and         *)
(* advantage: SpecClip draws them and the clip, and computes the           *)
(* surrogates and the actor loss as an update epoch does.                  *)

RatioInputs == {Q(1, 2), Q(4, 5), Q(9, 10), Num(1), Q(11, 10), Q(6, 5), Q(3, 2), Num(2)}
AdvantageInputs == {Num(-2), Num(-1), Q(-1, 2), Num(0), Q(1, 2), Num(1), Num(2)}
ClipInputs == {Q(1, 10), Q(1, 5), Q(1, 2)}

InitClip ==
    /\ pc = "surrogate"
    /\ \E r \in RatioInputs : ratios = <<r>>
    /\ \E a \in AdvantageInputs : A_k = <<a>>
    /\ clip \in ClipInputs
    /\ gamma = Q(1, 2) /\ lambda_return = Q(1, 2)
    /\ NoHyper
    /\ NoCall
    /\ batch_rews = <<>> /\ V = <<>> /\ advantages = <<>> /\ deltas = <<>>
    /\ surr1 = <<>> /\ surr2 = <<>> /\ actor_loss = Num(0)
    /\ critic_loss = Num(0)

ClippedSurrogate ==
    /\ pc = "surrogate"
    /\ surr1' = Surr1(ratios, A_k)
    /\ surr2' = Surr2(ratios, A_k, clip)
    /\ actor_loss' = ActorLoss(surr1', surr2')
    /\ pc' = "surrogate_done"
    /\ UNCHANGED <<error, hyper, exploration_factor, envVars, theta, phi, logger, rnd,
                   ex_f, seed, learnVars, gaeVars, ratios, critic_loss, rolloutVars>>

SpecClip == InitClip /\ [][ClippedSurrogate]_vars

----------------------------------------------------------------------------
(* The critic loss as a function of the value vector and the normalized    *)
(* advantages: SpecCritic draws both and computes the loss as an update    *)
(* epoch does.                                                             *)

CriticValueInputs == {Num(0), Num(1), Q(-1, 2)}
CriticAdvantageInputs == {Num(-1), Num(0), Q(1, 2), NaN}

InitCritic ==
    /\ pc = "critic_loss"
    /\ \E n, k \in 1..MaxSteps :
         /\ Broadcastable(n, k)
         /\ V \in [1..n -> CriticValueInputs]
         /\ A_k \in [1..k -> CriticAdvantageInputs]
    /\ gamma = Q(1, 2) /\ lambda_return = Q(1, 2) /\ clip = Q(1, 5)
    /\ NoHyper
    /\ NoCall
    /\ batch_rews = <<>> /\ advantages = <<>> /\ deltas = <<>>
    /\ ratios = <<>> /\ surr1 = <<>> /\ surr2 = <<>> /\ actor_loss = Num(0)
    /\ critic_loss = Num(0)

ComputeCriticLoss ==
    /\ pc = "critic_loss"
    /\ critic_loss' = CriticLoss(V, A_k)
    /\ pc' = "critic_loss_done"
    /\ UNCHANGED <<error, hyper, exploration_factor, envVars, theta, phi, logger, rnd,
                   ex_f, seed, learnVars, gaeVars, ratios, surr1, surr2, actor_loss,
                   rolloutVars>>

SpecCritic == InitCritic /\ [][ComputeCriticLoss]_vars

----------------------------------------------------------------------------
(* The claims.                                                             *)

\* The number of timesteps of the batch.
BatchSteps == Len(Flatten(batch_rews))

\* C2: estimate_advantage returns one advantage per timestep of the batch,
\* whatever the number of episodes (one included), episode e's advantages at
\* the flat indices of episode e.
C2_OnePerTimestep ==
    (pc = "estimated" /\ Len(V) = BatchSteps) =>
        /\ Len(advantages) = BatchSteps
        /\ \A e \in 1..Len(batch_rews) :
              SubSeq(advantages, Offset(batch_rews, e) + 1,
                     Offset(batch_rews, e) + Len(batch_rews[e]))
                = EpisodeAdvantages(batch_rews[e], V, gamma, lambda_return)

\* C3: in a batch of several episodes, the residual of timestep t of episode
\* e is rew + gamma * V[offset(e)+t+1] - V[offset(e)+t]: computed from the
\* timestep's own value and its successor's in the flat value vector.
C3_OwnValues ==
    (pc = "estimated" /\ Len(V) = BatchSteps /\ Len(batch_rews) > 1) =>
        \A i \in 1..Len(deltas) : \A e \in 1..Len(batch_rews) :
            \A k \in 1..Len(batch_rews[e]) :
                (i = Offset(batch_rews, e) + k /\ i + 1 <= Len(V)) =>
                    deltas[i] = TDResidual(batch_rews[e][k], V[i], V[i + 1], gamma)

\* C4: for a single episode with rewards r0..r(T-1) and values v0..vT the
\* result obeys the backward recursion: A(T-1) = r(T-1) + gamma*vT - v(T-1),
\* and A(t) = r(t) + gamma*v(t+1) - v(t) + gamma*lambda*A(t+1) for t < T-1.
C4_BackwardRecursion ==
    (pc = "estimated" /\ Len(batch_rews) = 1 /\ Len(V) = BatchSteps + 1) =>
        LET r == batch_rews[1]
            T == Len(r)
        IN  /\ Len(advantages) = T
            /\ advantages[T] = QSub(QAdd(r[T], QMul(gamma, V[T + 1])), V[T])
            /\ \A k \in 1..(T - 1) :
                  advantages[k] =
                      QAdd(QSub(QAdd(r[k], QMul(gamma, V[k + 1])), V[k]),
                           QMul(QMul(gamma, lambda_return), advantages[k + 1]))

\* A two-step episode whose later advantage is not zero and is looked back at.
C4_Witness ==
    /\ pc = "estimated" /\ Len(batch_rews) = 1 /\ Len(V) = BatchSteps + 1
    /\ BatchSteps = 2
    /\ gamma = Q(1, 2) /\ lambda_return = Q(1, 2)
    /\ advantages[2] = Num(1)
    /\ advantages[1] = Q(5, 4)

\* rollout has returned its batch (to __init__ or to learn) and the caller has
\* not moved on yet.
RolloutReturned == pc \in {"constructed", "advantage"}

\* C1: the batch rollout returns has at least timesteps_per_batch timesteps,
\* as many observations, actions and log-probabilities as the sum of
\* batch_lens, and one entry of batch_lens per episode the env ran, equal to
\* the number of env.step calls of that episode, which ended by the done flag
\* or at max_timesteps_per_episode steps.
C1_WholeEpisodes ==
    RolloutReturned =>
        /\ Sum(batch_lens) >= timesteps_per_batch
        /\ Sum(batch_lens) = Len(batch_obs)
        /\ Sum(batch_lens) = Len(batch_acts)
        /\ Sum(batch_lens) = Len(batch_log_probs)
        /\ Len(batch_lens) = Len(env_episodes)
        /\ \A e \in 1..Len(batch_lens) :
              /\ batch_lens[e] = env_episodes[e].steps
              /\ env_episodes[e].done \/ env_episodes[e].steps = max_timesteps_per_episode

\* A batch of more timesteps than asked for: an episode the env ended early,
\* then one that ran to the cap.
C1_Witness ==
    /\ pc = "advantage"
    /\ Sum(batch_lens) > timesteps_per_batch
    /\ Len(batch_lens) = 2
    /\ env_episodes[1].done /\ batch_lens[1] < max_timesteps_per_episode
    /\ ~env_episodes[2].done /\ batch_lens[2] = max_timesteps_per_episode

\* C5: learn starts an iteration only while t_so_far < total_timesteps and
\* returns only when t_so_far >= total_timesteps; each iteration adds
\* sum(batch_lens) to t_so_far; once Terminated it stays so; and a call of
\* learn whose steps all return ends in Terminated, with t_so_far >=
\* total_timesteps (or is left by an exception).
C5_RunningTerminated ==
    /\ [][(pc = "learn" /\ pc' = "rollout") => t_so_far < total_timesteps]_vars
    /\ [][(pc = "learn" /\ pc' = "Terminated") => t_so_far >= total_timesteps]_vars
    /\ [][pc = "advantage" => t_so_far' = t_so_far + Sum(batch_lens)]_vars
    /\ [][pc = "Terminated" => pc' = "Terminated"]_vars
    /\ [](pc = "Terminated" => t_so_far >= total_timesteps)
    /\ [](pc = "learn" => <>Halted)

\* learn returned after two iterations, the second one started below the total.
C5_Witness ==
    /\ pc = "Terminated"
    /\ i_so_far = 2
    /\ total_timesteps = 3
    /\ t_so_far = 4

\* C6: in the end-to-end scenario no step of the iteration raises, the batch
\* is two episodes of length 5, each of extrinsic return 5 and intrinsic
\* return 0, and there is one advantage and one surrogate term per each of
\* the 10 timesteps.
C6_EndToEnd ==
    /\ pc # "raised"
    /\ pc \in {"advantage", "update"} =>
          /\ batch_lens = <<5, 5>>
          /\ \A e \in 1..2 : /\ QSum(batch_extr_rews[e]) = Num(5)
                             /\ QSum(batch_intr_rews[e]) = Num(0)
    /\ pc = "update" => Len(advantages) = 10 /\ Len(A_k) = 10
    /\ (pc = "update" /\ epochs > 0) => Len(surr1) = 10 /\ Len(surr2) = 10

\* C7: with exploration on, a rollout of learn finishes every episode the env
\* ran: the episode's intrinsic rewards, one per step, are rescaled and
\* recorded, and the reward scale was reset for it exactly when fewer than
\* std_set_iteration iterations had completed.
C7_RescaleEveryEpisode ==
    (exploration_factor # 0 /\ caller = "learn") =>
        /\ error = ""
        /\ Len(batch_intr_rews) = Len(env_episodes)
        /\ \A e \in 1..Len(batch_intr_rews) :
              Len(batch_intr_rews[e]) = env_episodes[e].steps

\* C8: every iteration of learn that is over, by reaching the end of the
\* loop body or by an exception, ran exactly n_updates_per_iteration epochs;
\* each epoch is one actor step then one critic step and one logged actor
\* loss.
C8_EveryIterationUpdates ==
    /\ (pc \in {"learn", "raised", "Terminated"} /\ i_so_far > 0) =>
          /\ epochs = n_updates_per_iteration
          /\ Len(optim_steps) = 2 * n_updates_per_iteration
    /\ pc = "update" =>
          /\ Len(optim_steps) = 2 * epochs
          /\ Len(logger.actor_losses) = epochs
          /\ \A i \in 1..epochs : /\ optim_steps[2 * i - 1] = "actor"
                                  /\ optim_steps[2 * i] = "critic"

\* a == b on floats: false when either is NaN.
FloatEq(a, b) == ~IsNaN(a) /\ ~IsNaN(b) /\ a = b

\* A_k at timestep i of the batch, a one-element A_k being broadcast.
AdvantageAt(i) == A_k[IF Len(A_k) = 1 THEN 1 ELSE i]

C10_Clipping ==
    pc = "surrogate_done" =>
        LET r == ratios[1]
            A == A_k[1]
            term == QNeg(actor_loss)
        IN  /\ (QLt(Num(0), A) /\ QLe(QAdd(Num(1), clip), r)) =>
                   term = QMul(QAdd(Num(1), clip), A)
            /\ (QLt(A, Num(0)) /\ QLe(r, QSub(Num(1), clip))) =>
                   term = QMul(QSub(Num(1), clip), A)
            /\ clip = Q(1, 5) =>
                   /\ (QLt(Num(0), A) /\ QLe(Q(6, 5), r)) => term = QMul(Q(6, 5), A)
                   /\ (QLt(A, Num(0)) /\ QLe(r, Q(4, 5))) => term = QMul(Q(4, 5), A)

\* clip 0.2, a ratio of 1.5 and advantage 2: the term is 1.2 * 2.
C10_Witness ==
    /\ pc = "surrogate_done"
    /\ clip = Q(1, 5)
    /\ ratios = <<Q(3, 2)>>
    /\ A_k = <<Num(2)>>
    /\ actor_loss = Q(-12, 5)

\* The arguments the claim rejects: an observation space that is not a Box,
\* an action space neither Box nor Discrete, a seed given that is not an int.
InvalidArguments ==
    \/ env.observation_space # "Box"
    \/ env.action_space \notin {"Box", "Discrete"}
    \/ hyperparameters.seed \notin {Absent, None} /\ hyperparameters.seed.type # "int"

\* C11: with such arguments, construction ends in an error and never gets
\* to its rollout: no env.reset, no env.step.
C11_FailFast ==
    InvalidArguments =>
        /\ pc \in {"new", "raised"}
        /\ pc = "raised" => error # ""
        /\ caller = "" /\ env_steps = 0 /\ batch_obs = <<>>

\* C12: once the RND is built, nothing steps its target; a get_reward call
\* is one optimizer step, on the predictor, and nothing else steps the
\* predictor; every env.step is followed by one get_reward call when
\* exploration_factor is not zero and by none when it is zero, the rollout
\* of __init__ included.
C12_TargetImmutable ==
    /\ [](rnd.target_steps = 0)
    /\ [][(rnd.built /\ rnd'.built) => rnd'.target_steps = rnd.target_steps]_vars
    /\ [][rnd'.get_reward_calls # rnd.get_reward_calls =>
              /\ rnd'.get_reward_calls = rnd.get_reward_calls + 1
              /\ rnd'.predictor_steps = rnd.predictor_steps + 1
              /\ env_steps' = env_steps + 1
              /\ exploration_factor # 0]_vars
    /\ [][(rnd.built /\ rnd'.get_reward_calls = rnd.get_reward_calls) =>
              rnd'.predictor_steps = rnd.predictor_steps]_vars
    /\ [][env_steps' = env_steps + 1 =>
              IF exploration_factor # 0
              THEN rnd'.get_reward_calls = rnd.get_reward_calls + 1
              ELSE rnd' = rnd]_vars

\* Two steps into an episode with exploration on: two get_reward calls, two
\* steps of the predictor, none of the target.
C12_Witness ==
    /\ pc = "episode"
    /\ exploration_factor # 0
    /\ rnd.built
    /\ env_steps = 2
    /\ rnd.get_reward_calls = 2
    /\ rnd.predictor_steps = 2
    /\ rnd.target_steps = 0

\* C13: the critic loss MSE(V, A_k + V) is the mean of the squares of A_k,
\* whatever the value vector V is (the same number, or nan when A_k holds a
\* nan).
C13_CriticLossIgnoresV ==
    pc = "critic_loss_done" =>
        critic_loss = Mean([i \in 1..Len(A_k) |-> QMul(A_k[i], A_k[i])])

\* Values 1 and -1/2, advantages 1/2 and -1: the loss is (1/4 + 1) / 2.
C13_Witness ==
    /\ pc = "critic_loss_done"
    /\ V = <<Num(1), Q(-1, 2)>>
    /\ A_k = <<Q(1, 2), Num(-1)>>
    /\ critic_loss = Q(5, 8)

====
